---- MODULE Spec2Model ----
(***************************************************************************)
(* Doorbell_Project: the two scripts of the repository as state machines.  *)
(*                                                                         *)
(*   phone-detector.py   WifiPhoneDetector: scan (netsh), diff against     *)
(*                       known_networks, announce.                         *)
(*   wifi-monitor(1).py  WifiMonitor: scan (pywifi), prompt for a label    *)
(*                       for every unknown BSSID, persist it in sqlite.    *)
(*                                                                         *)
(* A behaviour of Spec runs one of the two scripts (prog).  StoreSpec      *)
(* calls WifiMonitor's store operations directly, with any arguments.      *)
(*                                                                         *)
(* A Python dict is a sequence of entries with distinct keys, in insertion *)
(* order (the iteration order of dict).                                    *)
(***************************************************************************)
EXTENDS Integers, Sequences, FiniteSets, TLC

(***************************************************************************)
(* Bounds of the model.                                                    *)
(***************************************************************************)
\* the most access points one scan reports
MaxAPs == 2
\* the wall clock (datetime.now()) runs over 0..MaxTime
MaxTime == 2

(***************************************************************************)
(* The environment: access points in range.  An access point has a stable  *)
(* hardware address (BSSID) and advertises a network name (SSID), which    *)
(* may be empty (hidden network).  A name is held as its colon-separated   *)
(* parts, since the netsh parser splits lines on ':'.                      *)
(***************************************************************************)
EmptyName == <<"">>

AccessPoints ==
    { [bssid |-> "AA:1", name |-> <<"Home">>],
      [bssid |-> "AA:2", name |-> <<"Home">>],
      [bssid |-> "BB:2", name |-> EmptyName],
      [bssid |-> "CC:3", name |-> <<"Cafe">>] }

\* signal percentages netsh may print (out-of-range values included)
Signals == {-5, 40, 60, 61, 120}

\* one observation: an access point and the signal it is seen with
Observations == [ap : AccessPoints, signal : Signals]

\* netsh lists the BSSIDs of one SSID together: equal names are adjacent
Grouped(obs) ==
    \A i, j \in DOMAIN obs :
        (i < j /\ obs[i].ap.name = obs[j].ap.name)
            => \A k \in i..j : obs[k].ap.name = obs[i].ap.name

DistinctAPs(obs) ==
    \A i, j \in DOMAIN obs : obs[i].ap = obs[j].ap => i = j

\* sequences over S of length at most n
RECURSIVE SeqsUpTo(_, _)
SeqsUpTo(S, n) ==
    IF n = 0 THEN { <<>> }
    ELSE LET shorter == SeqsUpTo(S, n - 1)
         IN  shorter \cup { Append(q, x) : q \in { r \in shorter : Len(r) = n - 1 },
                                            x \in S }

\* what is in range at one scan
Scans == { obs \in SeqsUpTo(Observations, MaxAPs) : DistinctAPs(obs) /\ Grouped(obs) }

(***************************************************************************)
(* netsh wlan show networks mode=Bssid: one "SSID n : name" line per       *)
(* network, then per access point a "BSSID n : addr" and a "Signal : p%"   *)
(* line.  A line is held as the label before the first colon and the       *)
(* colon-separated parts after it.                                         *)
(***************************************************************************)
SsidLine(name)   == [label |-> "SSID",   parts |-> name,        value |-> 0]
BssidLine(addr)  == [label |-> "BSSID",  parts |-> <<addr>>,    value |-> 0]
SignalLine(p)    == [label |-> "Signal", parts |-> <<"%">>,     value |-> p]

RECURSIVE NetshLines(_, _)
NetshLines(obs, i) ==
    IF i > Len(obs) THEN <<>>
    ELSE (IF i = 1 \/ obs[i].ap.name # obs[i - 1].ap.name
            THEN << SsidLine(obs[i].ap.name) >> ELSE <<>>)
         \o << BssidLine(obs[i].ap.bssid), SignalLine(obs[i].signal) >>
         \o NetshLines(obs, i + 1)

NetshOutput(obs) == NetshLines(obs, 1)

(***************************************************************************)
(* dict operations (insertion-ordered)                                     *)
(***************************************************************************)
Keys(d) == { d[i].ssid : i \in DOMAIN d }

Index(d, k) == CHOOSE i \in DOMAIN d : d[i].ssid = k

\* d[k]['signal']
SignalOf(d, k) == d[Index(d, k)].signal

\* d[k] = {'signal': s}: a new key goes last, an old key keeps its place
SetItem(d, k, s) ==
    IF k \in Keys(d)
    THEN [ i \in DOMAIN d |-> IF d[i].ssid = k THEN [ssid |-> k, signal |-> s] ELSE d[i] ]
    ELSE Append(d, [ssid |-> k, signal |-> s])

\* del d[k] left out
DelItem_Kept(d, k) == d

\* del d[k]
DelItem(d, k) == SelectSeq(d, LAMBDA e : e.ssid # k)

(***************************************************************************)
(* WifiPhoneDetector.get_networks: the parse of netsh's output.            *)
(***************************************************************************)
\* 'SSID' in line: "BSSID" contains "SSID"
ContainsSSID(line)   == line.label \in {"SSID", "BSSID"}
ContainsBSSID(line)  == line.label = "BSSID"
ContainsSignal(line) == line.label = "Signal"

\* line.split(':')[-1].strip()
LastField(line) == line.parts[Len(line.parts)]

\* the parse without "if ssid and ssid != ''": an empty name becomes a key
ParseLine_KeepEmpty(st, line) ==
    IF ContainsSSID(line) /\ ~ContainsBSSID(line)
    THEN LET ssid == LastField(line)
         IN  [networks |-> SetItem(st.networks, ssid, 0), current_ssid |-> <<ssid>>]
    ELSE IF ContainsSignal(line) /\ st.current_ssid # <<>>
    THEN [st EXCEPT !.networks = SetItem(@, st.current_ssid[1], line.value)]
    ELSE st

\* one iteration of the loop over the lines; current_ssid is <<>> (None) or <<ssid>>
ParseLine(st, line) ==
    IF ContainsSSID(line) /\ ~ContainsBSSID(line)
    THEN LET ssid == LastField(line)
         IN  IF ssid # ""
             THEN [networks |-> SetItem(st.networks, ssid, 0), current_ssid |-> <<ssid>>]
             ELSE st
    ELSE IF ContainsSignal(line) /\ st.current_ssid # <<>>
    THEN [st EXCEPT !.networks = SetItem(@, st.current_ssid[1], line.value)]
    ELSE st

RECURSIVE ParseLines(_, _, _)
ParseLines(st, output, i) ==
    IF i > Len(output) THEN st
    ELSE ParseLines(ParseLine(st, output[i]), output, i + 1)

\* the dict get_networks returns for an output of netsh
get_networks(output) ==
    ParseLines([networks |-> <<>>, current_ssid |-> <<>>], output, 1).networks

(***************************************************************************)
(* WifiPhoneDetector.analyze_network_changes                               *)
(***************************************************************************)
SignalJumpThreshold == 20
CloseThreshold == 60

NewCloseText == "New device detected very close by with signal strength {}%"
NewText      == "New device detected with signal strength {}%"
CloserText   == "Device {} moving closer. Signal increased from {}% to {}%"
GoneText     == "Device {} moved out of range"

\* a call of announce: the text, the SSID it is about and the numbers it quotes
Message(text, ssid, args) == [text |-> text, ssid |-> ssid, args |-> args]

\* the message of a new network with data['signal'] >= 60
NewMessage_AtLeast(ssid, signal) ==
    IF signal >= CloseThreshold
    THEN Message(NewCloseText, ssid, <<signal>>)
    ELSE Message(NewText, ssid, <<signal>>)

\* the message of a new network: data['signal'] > 60
NewMessage(ssid, signal) ==
    IF signal > CloseThreshold
    THEN Message(NewCloseText, ssid, <<signal>>)
    ELSE Message(NewText, ssid, <<signal>>)

\* new_signal >= old_signal + 20
IsSignificantIncrease_AtLeast(old_signal, new_signal) ==
    new_signal >= old_signal + SignalJumpThreshold

\* new_signal > old_signal + 20
IsSignificantIncrease(old_signal, new_signal) ==
    new_signal > old_signal + SignalJumpThreshold

\* the iteration with line 80 inside the if of line 77: the stored signal is
\* written only when the increase is announced
CheckNetwork_UpdateOnEvent(st, ssid, signal) ==
    IF ssid \notin Keys(st.known)
    THEN [known |-> SetItem(st.known, ssid, signal),
          said  |-> Append(st.said, NewMessage(ssid, signal))]
    ELSE LET old_signal == SignalOf(st.known, ssid)
         IN  IF IsSignificantIncrease(old_signal, signal)
             THEN [known |-> SetItem(st.known, ssid, signal),
                   said  |-> Append(st.said,
                                    Message(CloserText, ssid, <<old_signal, signal>>))]
             ELSE st

\* one iteration of the first loop: st = [known, said]
CheckNetwork(st, ssid, signal) ==
    IF ssid \notin Keys(st.known)
    THEN [known |-> SetItem(st.known, ssid, signal),
          said  |-> Append(st.said, NewMessage(ssid, signal))]
    ELSE LET old_signal == SignalOf(st.known, ssid)
         IN  [known |-> SetItem(st.known, ssid, signal),
              said  |-> IF IsSignificantIncrease(old_signal, signal)
                        THEN Append(st.said,
                                    Message(CloserText, ssid, <<old_signal, signal>>))
                        ELSE st.said]

RECURSIVE CheckNetworks(_, _, _)
CheckNetworks(st, current_networks, i) ==
    IF i > Len(current_networks) THEN st
    ELSE CheckNetworks(CheckNetwork(st, current_networks[i].ssid,
                                    current_networks[i].signal),
                       current_networks, i + 1)

\* the second loop without "if ssid not in current_networks"
CheckDisappeared_Always(st, ssid, current_networks) ==
    [known |-> DelItem(st.known, ssid),
     said  |-> Append(st.said, Message(GoneText, ssid, <<>>))]

\* one iteration of the second loop, over list(self.known_networks.keys())
CheckDisappeared(st, ssid, current_networks) ==
    IF ssid \notin Keys(current_networks)
    THEN [known |-> DelItem(st.known, ssid),
          said  |-> Append(st.said, Message(GoneText, ssid, <<>>))]
    ELSE st

RECURSIVE CheckAllDisappeared(_, _, _, _)
CheckAllDisappeared(st, keys, current_networks, i) ==
    IF i > Len(keys) THEN st
    ELSE CheckAllDisappeared(CheckDisappeared(st, keys[i].ssid, current_networks),
                             keys, current_networks, i + 1)

\* the call with its two loops the other way round: the networks that are gone
\* first, the networks of the scan after them
analyze_network_changes_GoneFirst(known, current_networks) ==
    LET gone == CheckAllDisappeared([known |-> known, said |-> <<>>], known,
                                    current_networks, 1)
    IN  CheckNetworks(gone, current_networks, 1)

\* the whole call: the new known_networks and the announcements, in order
analyze_network_changes(known, current_networks) ==
    LET first == CheckNetworks([known |-> known, said |-> <<>>], current_networks, 1)
    IN  CheckAllDisappeared(first, first.known, current_networks, 1)

\* the first loop until its k-th call of announce does not return: announce is
\* called before the iteration writes known_networks (lines 69-72, 78-80), so the
\* iteration that calls it leaves no trace
RECURSIVE CheckNetworksUntil(_, _, _, _)
CheckNetworksUntil(st, current_networks, i, k) ==
    IF i > Len(current_networks) THEN [st |-> st, cut |-> FALSE]
    ELSE LET r == CheckNetwork(st, current_networks[i].ssid,
                               current_networks[i].signal)
         IN  IF Len(r.said) >= k THEN [st |-> st, cut |-> TRUE]
             ELSE CheckNetworksUntil(r, current_networks, i + 1, k)

\* the second loop until the k-th call of announce does not return (line 85 is
\* before the del of line 86)
RECURSIVE CheckAllDisappearedUntil(_, _, _, _, _)
CheckAllDisappearedUntil(st, keys, current_networks, i, k) ==
    IF i > Len(keys) THEN st
    ELSE LET r == CheckDisappeared(st, keys[i].ssid, current_networks)
         IN  IF Len(r.said) >= k THEN st
             ELSE CheckAllDisappearedUntil(r, keys, current_networks, i + 1, k)

\* the call left by an exception raised inside its k-th call of announce
analyze_network_changes_until(known, current_networks, k) ==
    LET first == CheckNetworksUntil([known |-> known, said |-> <<>>],
                                    current_networks, 1, k)
    IN  IF first.cut THEN first.st
        ELSE CheckAllDisappearedUntil(first.st, first.st.known, current_networks, 1, k)

(***************************************************************************)
(* WifiMonitor: the networks table and the known_networks cache.  A table  *)
(* or a cache is a function from BSSIDs; first_seen and last_seen are the  *)
(* clock's value in whole seconds, as strftime('%Y-%m-%d %H:%M:%S') writes *)
(* it.                                                                     *)
(***************************************************************************)
EmptyMap == [ b \in {} |-> 0 ]

\* what the dialog gives back: <<>> is None (cancelled), <<"">> is OK on nothing
Replies == { <<>>, <<"">>, <<"Mum">> }

\* how one call of prompt_for_name can go: the dialog raises, or the user replies
\* and, when a label was given, the write succeeds or fails
PromptCases(replies) ==
    { [dialog_raises |-> TRUE, reply |-> <<>>, disk_error |-> FALSE] }
    \cup { [dialog_raises |-> FALSE, reply |-> r, disk_error |-> FALSE] : r \in replies }
    \cup { [dialog_raises |-> FALSE, reply |-> r, disk_error |-> TRUE] :
             r \in { q \in replies : q # <<>> /\ q # <<"">> } }

\* Python's truth of an optional string
Truthy(opt) == opt # <<>> /\ opt # <<"">>

NewSignalText    == "New signal detected"
NetworkNamedText == "Network named {}"
DetectedText     == "Detected {}"
ScanFailedLog    == "Network scan failed"
PromptFailedLog  == "Failed to prompt for network name"
MonitoringLog    == "Error during monitoring"

Say(text, args) == [text |-> text, args |-> args]

\* INSERT INTO networks ... ; commit: bssid is the PRIMARY KEY, so a second row
\* for it raises IntegrityError; disk_error is any other failure of the write
InsertRow(db, bssid, ssid, custom_name, now, disk_error) ==
    IF disk_error THEN [error |-> "OperationalError", db |-> db]
    ELSE IF bssid \in DOMAIN db THEN [error |-> "IntegrityError", db |-> db]
    ELSE [error |-> "",
          db |-> [ b \in DOMAIN db \cup {bssid} |->
                     IF b = bssid
                     THEN [ssid |-> ssid, custom_name |-> custom_name,
                           first_seen |-> now, last_seen |-> now]
                     ELSE db[b] ]]

\* self.known_networks[bssid] = {'ssid': ..., 'custom_name': ...}
SetKnown(known, bssid, ssid, custom_name) ==
    [ b \in DOMAIN known \cup {bssid} |->
        IF b = bssid THEN [ssid |-> ssid, custom_name |-> custom_name] ELSE known[b] ]

\* the load without the custom_name column
load_known_networks_NoLabel(known, db) ==
    [ b \in DOMAIN known \cup DOMAIN db |->
        IF b \in DOMAIN db
        THEN [ssid |-> db[b].ssid, custom_name |-> ""]
        ELSE known[b] ]

\* SELECT bssid, ssid, custom_name FROM networks, each row put into known_networks
load_known_networks(known, db) ==
    [ b \in DOMAIN known \cup DOMAIN db |->
        IF b \in DOMAIN db
        THEN [ssid |-> db[b].ssid, custom_name |-> db[b].custom_name]
        ELSE known[b] ]

\* prompt_for_name with the cache set before the INSERT
prompt_for_name_CacheFirst(known, db, ssid, bssid, dialog_raises, reply, now, disk_error) ==
    IF dialog_raises
    THEN [known |-> known, db |-> db, returned |-> <<>>, logged |-> PromptFailedLog,
          write |-> ""]
    ELSE IF ~Truthy(reply)
    THEN [known |-> known, db |-> db, returned |-> reply, logged |-> "",
          write |-> ""]
    ELSE LET w == InsertRow(db, bssid, ssid, reply[1], now, disk_error)
         IN  IF w.error = ""
             THEN [known |-> SetKnown(known, bssid, ssid, reply[1]), db |-> w.db,
                   returned |-> reply, logged |-> "", write |-> "ok"]
             ELSE [known |-> SetKnown(known, bssid, ssid, reply[1]), db |-> db,
                   returned |-> <<>>, logged |-> PromptFailedLog, write |-> w.error]

\* prompt_for_name(ssid, bssid): dialog_raises is Tk or the dialog failing, reply
\* what the user gives.  Returns the cache, the table, the value returned, the
\* error logged ("" for none) and how the write went ("" for no write, "ok", or
\* the exception it raised).
prompt_for_name(known, db, ssid, bssid, dialog_raises, reply, now, disk_error) ==
    IF dialog_raises
    THEN [known |-> known, db |-> db, returned |-> <<>>, logged |-> PromptFailedLog,
          write |-> ""]
    ELSE IF ~Truthy(reply)
    THEN [known |-> known, db |-> db, returned |-> reply, logged |-> "",
          write |-> ""]
    ELSE LET w == InsertRow(db, bssid, ssid, reply[1], now, disk_error)
         IN  IF w.error = ""
             THEN [known |-> SetKnown(known, bssid, ssid, reply[1]), db |-> w.db,
                   returned |-> reply, logged |-> "", write |-> "ok"]
             ELSE [known |-> known, db |-> db, returned |-> <<>>,
                   logged |-> PromptFailedLog, write |-> w.error]

\* the record of the latest step of a script's loop
\* (the call, its arguments, the user's reply, the value returned, the error logged,
\* the announcements made and how the write went)
Step(op, bssid, name, reply, returned, logged, said, write) ==
    [op |-> op, bssid |-> bssid, name |-> name, reply |-> reply,
     returned |-> returned, logged |-> logged, said |-> said, write |-> write]

NoStep == Step("", "", <<>>, <<>>, <<>>, "", <<>>, "")

\* the loop's body remembering, for the run, a network the user gave no label
\* for: known_networks[bssid] gets an empty custom_name when the prompt returns
\* nothing
visit_network_RememberDeclined(known, db, network, dialog_raises, reply, now, disk_error) ==
    LET bssid == network.bssid
        ssid  == network.name
    IN  IF ssid = EmptyName
        THEN [known |-> known, db |-> db,
              step |-> Step("skip", bssid, ssid, <<>>, <<>>, "", <<>>, "")]
        ELSE IF bssid \notin DOMAIN known
        THEN LET r == prompt_for_name(known, db, ssid, bssid, dialog_raises, reply,
                                      now, disk_error)
             IN  [known |-> IF Truthy(r.returned) THEN r.known
                            ELSE SetKnown(r.known, bssid, ssid, ""),
                  db |-> r.db,
                  step |-> Step("prompt", bssid, ssid,
                                IF dialog_raises THEN <<>> ELSE reply,
                                r.returned, r.logged,
                                << Say(NewSignalText, <<>>) >>
                                \o (IF Truthy(r.returned)
                                    THEN << Say(NetworkNamedText, r.returned) >>
                                    ELSE <<>>),
                                r.write)]
        ELSE LET custom_name == known[bssid].custom_name
             IN  [known |-> known, db |-> db,
                  step |-> Step("known", bssid, ssid, <<>>, <<custom_name>>, "",
                                IF custom_name # ""
                                THEN << Say(DetectedText, <<custom_name>>) >>
                                ELSE <<>>,
                                "")]

\* the loop's body with the cache looked up by ssid ("if ssid not in
\* self.known_networks"): the keys are BSSIDs, so every named network is new
visit_network_KeyBySsid(known, db, network, dialog_raises, reply, now, disk_error) ==
    LET bssid == network.bssid
        ssid  == network.name
    IN  IF ssid = EmptyName
        THEN [known |-> known, db |-> db,
              step |-> Step("skip", bssid, ssid, <<>>, <<>>, "", <<>>, "")]
        ELSE LET r == prompt_for_name(known, db, ssid, bssid, dialog_raises, reply,
                                      now, disk_error)
             IN  [known |-> r.known, db |-> r.db,
                  step |-> Step("prompt", bssid, ssid,
                                IF dialog_raises THEN <<>> ELSE reply,
                                r.returned, r.logged,
                                << Say(NewSignalText, <<>>) >>
                                \o (IF Truthy(r.returned)
                                    THEN << Say(NetworkNamedText, r.returned) >>
                                    ELSE <<>>),
                                r.write)]

\* the body of monitor's for loop for one network of the scan's results
visit_network(known, db, network, dialog_raises, reply, now, disk_error) ==
    LET bssid == network.bssid
        ssid  == network.name
    IN  IF ssid = EmptyName
        THEN [known |-> known, db |-> db,
              step |-> Step("skip", bssid, ssid, <<>>, <<>>, "", <<>>, "")]
        ELSE IF bssid \notin DOMAIN known
        THEN LET r == prompt_for_name(known, db, ssid, bssid, dialog_raises, reply,
                                      now, disk_error)
             IN  [known |-> r.known, db |-> r.db,
                  step |-> Step("prompt", bssid, ssid,
                                IF dialog_raises THEN <<>> ELSE reply,
                                r.returned, r.logged,
                                << Say(NewSignalText, <<>>) >>
                                \o (IF Truthy(r.returned)
                                    THEN << Say(NetworkNamedText, r.returned) >>
                                    ELSE <<>>),
                                r.write)]
        ELSE LET custom_name == known[bssid].custom_name
             IN  [known |-> known, db |-> db,
                  step |-> Step("known", bssid, ssid, <<>>, <<custom_name>>, "",
                                IF custom_name # ""
                                THEN << Say(DetectedText, <<custom_name>>) >>
                                ELSE <<>>,
                                "")]

(***************************************************************************)
(* State                                                                   *)
(***************************************************************************)
VARIABLES
    prog,              \* the script that runs: "phone-detector" or "wifi-monitor"
    pc,                \* where the script's loop is
    stop_cause,        \* why the loop ended ("" while it runs)
    known_networks,    \* WifiPhoneDetector.known_networks
    in_range,          \* the observations of the latest scan (the environment)
    scan_error,        \* the exception the latest scan raised ("" for none)
    current_networks,  \* what get_networks returned for the latest scan
    announced,         \* the calls of announce in the current cycle
    previous_known,    \* known_networks when the current cycle started
    monitor_known,     \* WifiMonitor.known_networks
    db,                \* the networks table of wifi_networks.db
    now,               \* datetime.now()
    networks,          \* WifiMonitor.monitor: the results of the latest scan
    visit,             \* the index in networks of the next network of the for loop
    last               \* WifiMonitor: the latest step of the loop

pd_vars == << known_networks, in_range, current_networks, announced, previous_known >>

wm_vars == << monitor_known, db, now, networks, visit, last >>

vars == << prog, pc, stop_cause, known_networks, in_range, scan_error,
           current_networks, announced, previous_known,
           monitor_known, db, now, networks, visit, last >>

Init ==
    /\ prog \in {"phone-detector", "wifi-monitor"}
    /\ pc = IF prog = "phone-detector" THEN "scan" ELSE "start"
    /\ stop_cause = ""
    /\ known_networks = <<>>
    /\ in_range = <<>>
    /\ scan_error = ""
    /\ current_networks = <<>>
    /\ announced = <<>>
    /\ previous_known = <<>>
    /\ monitor_known = EmptyMap
    /\ db = EmptyMap
    /\ now = 0
    /\ networks = <<>>
    /\ visit = 1
    /\ last = NoStep

(***************************************************************************)
(* WifiPhoneDetector.start_monitoring: one action per call of the loop     *)
(***************************************************************************)
\* get_networks returns the parse of netsh's output
PD_GetNetworks ==
    /\ prog = "phone-detector" /\ pc = "scan"
    /\ \E obs \in Scans :
        /\ in_range' = obs
        /\ current_networks' = get_networks(NetshOutput(obs))
    /\ scan_error' = ""
    /\ previous_known' = known_networks
    /\ pc' = "analyze"
    /\ UNCHANGED << prog, stop_cause, known_networks, announced >>
    /\ UNCHANGED wm_vars

\* netsh exits non-zero: CalledProcessError is caught, get_networks returns {}
PD_GetNetworksFails ==
    /\ prog = "phone-detector" /\ pc = "scan"
    /\ in_range' = <<>>
    /\ current_networks' = <<>>
    /\ scan_error' = "CalledProcessError"
    /\ previous_known' = known_networks
    /\ pc' = "analyze"
    /\ UNCHANGED << prog, stop_cause, known_networks, announced >>
    /\ UNCHANGED wm_vars

\* get_networks raises anything else (UnicodeDecodeError on netsh's bytes, OSError
\* when netsh cannot be run, ValueError from int()): get_networks does not catch
\* it, start_monitoring's except Exception prints it and the loop is over
PD_GetNetworksRaises ==
    /\ prog = "phone-detector" /\ pc = "scan"
    /\ scan_error' = "UnicodeDecodeError"
    /\ pc' = "stopped"
    /\ stop_cause' = "Exception"
    /\ UNCHANGED << prog, known_networks, in_range, current_networks, announced,
                    previous_known >>
    /\ UNCHANGED wm_vars

PD_Analyze ==
    /\ prog = "phone-detector" /\ pc = "analyze"
    /\ LET r == analyze_network_changes(known_networks, current_networks)
       IN  /\ known_networks' = r.known
           /\ announced' = r.said
    /\ pc' = "sleep"
    /\ UNCHANGED << prog, stop_cause, in_range, scan_error, current_networks,
                    previous_known >>
    /\ UNCHANGED wm_vars

\* time.sleep(interval) returns: the next cycle starts
PD_Sleep ==
    /\ prog = "phone-detector" /\ pc = "sleep"
    /\ pc' = "scan"
    /\ in_range' = <<>>
    /\ scan_error' = ""
    /\ current_networks' = <<>>
    /\ announced' = <<>>
    /\ previous_known' = known_networks
    /\ UNCHANGED << prog, stop_cause, known_networks >>
    /\ UNCHANGED wm_vars

\* Ctrl+C during time.sleep
PD_KeyboardInterrupt ==
    /\ prog = "phone-detector" /\ pc = "sleep"
    /\ pc' = "stopped"
    /\ stop_cause' = "KeyboardInterrupt"
    /\ UNCHANGED << prog, known_networks, in_range, scan_error, current_networks,
                    announced, previous_known >>
    /\ UNCHANGED wm_vars

\* Ctrl+C while get_networks waits for netsh: KeyboardInterrupt is not a
\* CalledProcessError, it leaves get_networks and the loop
PD_InterruptScan ==
    /\ prog = "phone-detector" /\ pc = "scan"
    /\ pc' = "stopped"
    /\ stop_cause' = "KeyboardInterrupt"
    /\ UNCHANGED << prog, known_networks, in_range, scan_error, current_networks,
                    announced, previous_known >>
    /\ UNCHANGED wm_vars

\* Ctrl+C while announce speaks the k-th message of the cycle (runAndWait):
\* KeyboardInterrupt leaves announce, analyze_network_changes and the loop
PD_InterruptAnalyze ==
    /\ prog = "phone-detector" /\ pc = "analyze"
    /\ \E k \in 1..Len(analyze_network_changes(known_networks, current_networks).said) :
        LET r == analyze_network_changes_until(known_networks, current_networks, k)
        IN  /\ known_networks' = r.known
            /\ announced' = r.said
    /\ pc' = "stopped"
    /\ stop_cause' = "KeyboardInterrupt"
    /\ UNCHANGED << prog, in_range, scan_error, current_networks, previous_known >>
    /\ UNCHANGED wm_vars

(***************************************************************************)
(* wifi-monitor(1).py: main, WifiMonitor.__init__ and WifiMonitor.monitor  *)
(***************************************************************************)
\* pywifi's scan results: access points in any order, repeats included
ScanResults == SeqsUpTo(AccessPoints, MaxAPs)

\* main with a WifiMonitor() that does not call load_known_networks
WM_Construct_NoLoad ==
    /\ prog = "wifi-monitor" /\ pc = "start"
    /\ monitor_known' = EmptyMap
    /\ pc' = "scan"
    /\ stop_cause' = ""
    /\ last' = Step("load", "", <<>>, <<>>, <<>>, "", <<>>, "")
    /\ UNCHANGED << prog, scan_error, db, now, networks, visit >>
    /\ UNCHANGED pd_vars

\* main: WifiMonitor() succeeds (interface, database, load, text-to-speech) and
\* the monitoring thread starts
WM_Construct ==
    /\ prog = "wifi-monitor" /\ pc = "start"
    /\ monitor_known' = load_known_networks(EmptyMap, db)
    /\ pc' = "scan"
    /\ stop_cause' = ""
    /\ last' = Step("load", "", <<>>, <<>>, <<>>, "", <<>>, "")
    /\ UNCHANGED << prog, scan_error, db, now, networks, visit >>
    /\ UNCHANGED pd_vars

\* main with the exception of WifiMonitor() logged and not fatal: the monitoring
\* thread is started all the same
WM_ConstructFails_Continues ==
    /\ prog = "wifi-monitor" /\ pc = "start"
    /\ \E cause \in {"wifi interface", "database", "text-to-speech"} :
           stop_cause' = cause
    /\ pc' = "scan"
    /\ UNCHANGED << prog, scan_error >>
    /\ UNCHANGED wm_vars
    /\ UNCHANGED pd_vars

\* WifiMonitor() raises (no wireless interface, the database cannot be opened,
\* no text-to-speech): main logs it and calls sys.exit(1)
WM_ConstructFails ==
    /\ prog = "wifi-monitor" /\ pc = "start"
    /\ \E cause \in {"wifi interface", "database", "text-to-speech"} :
           stop_cause' = cause
    /\ pc' = "exited"
    /\ UNCHANGED << prog, scan_error >>
    /\ UNCHANGED wm_vars
    /\ UNCHANGED pd_vars

\* a scan started by a timer of its own instead of the loop: it may start while
\* the results of the scan before are still being gone through
WM_Scan_OnTimer ==
    /\ prog = "wifi-monitor" /\ pc \in {"scan", "visit"}
    /\ \E results \in ScanResults :
        /\ networks' = results
        /\ pc' = IF results = <<>> THEN "sleep" ELSE "visit"
    /\ visit' = 1
    /\ scan_error' = ""
    /\ last' = Step("scan", "", <<>>, <<>>, <<>>, "", <<>>, "")
    /\ UNCHANGED << prog, stop_cause, monitor_known, db, now >>
    /\ UNCHANGED pd_vars

\* scan_networks returns the results of the scan
WM_Scan ==
    /\ prog = "wifi-monitor" /\ pc = "scan"
    /\ \E results \in ScanResults :
        /\ networks' = results
        /\ pc' = IF results = <<>> THEN "sleep" ELSE "visit"
    /\ visit' = 1
    /\ scan_error' = ""
    /\ last' = Step("scan", "", <<>>, <<>>, <<>>, "", <<>>, "")
    /\ UNCHANGED << prog, stop_cause, monitor_known, db, now >>
    /\ UNCHANGED pd_vars

\* the scan raises: scan_networks logs it and returns []
WM_ScanFails ==
    /\ prog = "wifi-monitor" /\ pc = "scan"
    /\ networks' = <<>>
    /\ visit' = 1
    /\ pc' = "sleep"
    /\ scan_error' = "Exception"
    /\ last' = Step("scan", "", <<>>, <<>>, <<>>, ScanFailedLog, <<>>, "")
    /\ UNCHANGED << prog, stop_cause, monitor_known, db, now >>
    /\ UNCHANGED pd_vars

\* one iteration of the for loop, the prompt and the write included
WM_Visit ==
    /\ prog = "wifi-monitor" /\ pc = "visit"
    /\ \E c \in PromptCases(Replies) :
        LET r == visit_network(monitor_known, db, networks[visit], c.dialog_raises,
                               c.reply, now, c.disk_error)
        IN  /\ monitor_known' = r.known
            /\ db' = r.db
            /\ last' = r.step
    /\ visit' = visit + 1
    /\ pc' = IF visit = Len(networks) THEN "sleep" ELSE "visit"
    /\ UNCHANGED << prog, stop_cause, scan_error, now, networks >>
    /\ UNCHANGED pd_vars

\* anything else raised in the loop's body (print on a console that cannot encode
\* the SSID): monitor's except logs it, sleeps 5 seconds and scans again
WM_BodyRaises ==
    /\ prog = "wifi-monitor" /\ pc = "visit"
    /\ networks[visit].name # EmptyName
    /\ last' = Step("raise", networks[visit].bssid, networks[visit].name, <<>>, <<>>,
                    MonitoringLog, <<>>, "")
    /\ pc' = "sleep"
    /\ UNCHANGED << prog, stop_cause, scan_error, monitor_known, db, now, networks,
                    visit >>
    /\ UNCHANGED pd_vars

\* time.sleep returns: the clock has moved on and the next cycle starts
WM_Sleep ==
    /\ prog = "wifi-monitor" /\ pc = "sleep"
    /\ now < MaxTime
    /\ now' = now + 1
    /\ pc' = "scan"
    /\ networks' = <<>>
    /\ visit' = 1
    /\ scan_error' = ""
    /\ last' = NoStep
    /\ UNCHANGED << prog, stop_cause, monitor_known, db >>
    /\ UNCHANGED pd_vars

\* Exit in the tray menu (or the main window closes): the main thread returns and
\* the daemon thread dies with the process; only the database file is left, and
\* the script can be started again
WM_Exit ==
    /\ prog = "wifi-monitor" /\ pc \in {"scan", "visit", "sleep"}
    /\ pc' = "start"
    /\ stop_cause' = "exit"
    /\ monitor_known' = EmptyMap
    /\ networks' = <<>>
    /\ visit' = 1
    /\ scan_error' = ""
    /\ last' = NoStep
    /\ UNCHANGED << prog, db, now >>
    /\ UNCHANGED pd_vars

Next ==
    \/ PD_GetNetworks
    \/ PD_GetNetworksFails
    \/ PD_GetNetworksRaises
    \/ PD_Analyze
    \/ PD_Sleep
    \/ PD_KeyboardInterrupt
    \/ PD_InterruptScan
    \/ PD_InterruptAnalyze
    \/ WM_Construct
    \/ WM_ConstructFails
    \/ WM_Scan
    \/ WM_ScanFails
    \/ WM_Visit
    \/ WM_BodyRaises
    \/ WM_Sleep
    \/ WM_Exit

Spec == Init /\ [][Next]_vars

(***************************************************************************)
(* StoreSpec: WifiMonitor's store operations called directly on one        *)
(* WifiMonitor object, with any arguments, as a caller of the class may.   *)
(***************************************************************************)
StoreInit ==
    /\ prog = "wifi-monitor"
    /\ pc = "api"
    /\ stop_cause = ""
    /\ known_networks = <<>>
    /\ in_range = <<>>
    /\ scan_error = ""
    /\ current_networks = <<>>
    /\ announced = <<>>
    /\ previous_known = <<>>
    /\ monitor_known = EmptyMap
    /\ db = EmptyMap
    /\ now = 0
    /\ networks = <<>>
    /\ visit = 1
    /\ last = NoStep

\* the access points the direct calls are made for
StoreAPs == { ap \in AccessPoints : ap.bssid \in {"AA:1", "BB:2", "CC:3"} }

\* what the user may type in the direct calls
StoreReplies == Replies \cup { <<"Dad">> }

\* prompt_for_name(ssid, bssid)
Store_PromptForName ==
    /\ pc = "api"
    /\ \E ap \in StoreAPs, c \in PromptCases(StoreReplies) :
        LET r == prompt_for_name(monitor_known, db, ap.name, ap.bssid, c.dialog_raises,
                                 c.reply, now, c.disk_error)
        IN  /\ monitor_known' = r.known
            /\ db' = r.db
            /\ last' = Step("prompt", ap.bssid, ap.name, c.reply,
                            r.returned, r.logged, <<>>,
                            r.write)
    /\ UNCHANGED << prog, pc, stop_cause, scan_error, now, networks, visit >>
    /\ UNCHANGED pd_vars

\* load_known_networks()
Store_Load ==
    /\ pc = "api"
    /\ monitor_known' = load_known_networks(monitor_known, db)
    /\ last' = Step("load", "", <<>>, <<>>, <<>>, "", <<>>, "")
    /\ UNCHANGED << prog, pc, stop_cause, scan_error, db, now, networks, visit >>
    /\ UNCHANGED pd_vars

\* a new WifiMonitor object over the same database file
Store_Reopen ==
    /\ pc = "api"
    /\ monitor_known' = load_known_networks(EmptyMap, db)
    /\ last' = Step("open", "", <<>>, <<>>, <<>>, "", <<>>, "")
    /\ UNCHANGED << prog, pc, stop_cause, scan_error, db, now, networks, visit >>
    /\ UNCHANGED pd_vars

\* time passes between two calls
Store_Tick ==
    /\ pc = "api"
    /\ now < MaxTime
    /\ now' = now + 1
    /\ last' = NoStep
    /\ UNCHANGED << prog, pc, stop_cause, scan_error, monitor_known, db, networks,
                    visit >>
    /\ UNCHANGED pd_vars

StoreNext ==
    \/ Store_PromptForName
    \/ Store_Load
    \/ Store_Reopen
    \/ Store_Tick

StoreSpec == StoreInit /\ [][StoreNext]_vars

(***************************************************************************)
(* Properties                                                              *)
(***************************************************************************)
PD == prog = "phone-detector"
WM == prog = "wifi-monitor"

\* WifiPhoneDetector: analyze_network_changes has returned for the latest scan
CycleDone == PD /\ pc = "sleep"

AppearedTexts == {NewCloseText, NewText}

\* the announcements of the cycle about ssid with a text among texts
Said(ssid, texts) ==
    { i \in DOMAIN announced : announced[i].ssid = ssid /\ announced[i].text \in texts }

SsidsOfCycle ==
    Keys(previous_known) \cup Keys(current_networks)
        \cup { announced[i].ssid : i \in DOMAIN announced }

\* the observations of the latest scan with an empty name
Hidden == { i \in DOMAIN in_range : in_range[i].ap.name = EmptyName }

\* C1: after one call of analyze_network_changes, an SSID in the scan and not in
\* known-state has exactly one Appeared announcement, one in known-state and not
\* in the scan exactly one Disappeared, one in both whose signal rose by more than
\* the threshold exactly one moving-closer, and every other SSID has none; no
\* SSID has two announcements.
C1_OneEventPerChange ==
    CycleDone =>
        \A k \in SsidsOfCycle :
            LET appeared == Cardinality(Said(k, AppearedTexts))
                closer   == Cardinality(Said(k, {CloserText}))
                gone     == Cardinality(Said(k, {GoneText}))
                inPrev   == k \in Keys(previous_known)
                inCur    == k \in Keys(current_networks)
            IN  CASE ~inPrev /\ inCur -> appeared = 1 /\ closer = 0 /\ gone = 0
                  [] inPrev /\ ~inCur -> appeared = 0 /\ closer = 0 /\ gone = 1
                  [] inPrev /\ inCur /\ SignalOf(current_networks, k)
                        - SignalOf(previous_known, k) > SignalJumpThreshold
                        -> appeared = 0 /\ closer = 1 /\ gone = 0
                  [] OTHER -> appeared = 0 /\ closer = 0 /\ gone = 0

\* a cycle in which one SSID appeared and another disappeared
C1_Witness ==
    /\ CycleDone
    /\ \E i, j \in DOMAIN announced :
          announced[i].text \in AppearedTexts /\ announced[j].text = GoneText

\* C2: at the end of a cycle known_networks holds exactly the SSIDs of the dict
\* the latest scan returned.
C2_KnownIsLatestScan ==
    CycleDone => Keys(known_networks) = Keys(current_networks)

\* a cycle that added one SSID and removed another
C2_Witness ==
    /\ CycleDone
    /\ Keys(current_networks) \ Keys(previous_known) # {}
    /\ Keys(previous_known) \ Keys(current_networks) # {}

\* C3: a cycle whose scan failed leaves known-state as it was and announces
\* nothing.
C3_FailedScanKeepsKnown ==
    (pc = "sleep" /\ scan_error # "") =>
        IF PD THEN known_networks = previous_known /\ announced = <<>>
        ELSE networks = <<>> /\ last.said = <<>>

\* C4: no error of a component ends the monitoring loop: only the external stop
\* (Ctrl+C) does.
C4_OnlyCancellationEndsLoop ==
    pc = "stopped" => stop_cause = "KeyboardInterrupt"

\* C5: for an SSID in both known-state and the scan, a rise of exactly 20 is not
\* announced, a rise of 21 or more is (with the old and the new signal), and an
\* equal or lower signal is not.
C5_ThresholdIsStrict ==
    CycleDone =>
        \A k \in Keys(previous_known) \cap Keys(current_networks) :
            LET old == SignalOf(previous_known, k)
                new == SignalOf(current_networks, k)
            IN  /\ new <= old + 20 => Said(k, {CloserText}) = {}
                /\ new >= old + 21 =>
                      \E i \in Said(k, {CloserText}) : announced[i].args = <<old, new>>

\* a cycle with one SSID up by exactly 20 and another up by exactly 21
C5_Witness ==
    /\ CycleDone
    /\ \E k, m \in Keys(previous_known) \cap Keys(current_networks) :
          /\ SignalOf(current_networks, k) = SignalOf(previous_known, k) + 20
          /\ SignalOf(current_networks, m) = SignalOf(previous_known, m) + 21

C7_KeyedByIdentifier ==
    (CycleDone /\ scan_error = "") =>
        \A i, j \in DOMAIN in_range :
            ( /\ i # j
              /\ in_range[i].ap.name = in_range[j].ap.name
              /\ in_range[i].ap.name # EmptyName
              /\ in_range[i].ap.bssid # in_range[j].ap.bssid )
            => \E m, n \in DOMAIN known_networks :
                  /\ m # n
                  /\ known_networks[m].signal = in_range[i].signal
                  /\ known_networks[n].signal = in_range[j].signal

\* C8: when the write of prompt_for_name fails, the failure is logged, the cache
\* known_networks and the table are what they were, and the loop goes on.
C8_FailedWriteKeepsCache ==
    [][ (WM /\ pc = "visit" /\ last'.write \notin {"", "ok"}) =>
            /\ monitor_known' = monitor_known
            /\ db' = db
            /\ last'.logged = PromptFailedLog
            /\ last'.returned = <<>>
            /\ pc' \in {"visit", "sleep"} ]_vars

\* a label was given for an unknown network and the write raised
C8_Witness ==
    /\ WM /\ pc \in {"visit", "sleep"}
    /\ last.op = "prompt" /\ last.write = "OperationalError"
    /\ Truthy(last.reply)

\* C9: the write is an upsert: for an address that has a row, a write with a
\* healthy store succeeds, keeps first_seen and sets last_seen to now.
C9_WriteIsUpsert ==
    [][ ( /\ pc = "api" /\ last'.op = "prompt" /\ Truthy(last'.reply)
          /\ last'.bssid \in DOMAIN db
          /\ last'.write # "OperationalError" )
        => /\ last'.write = "ok"
           /\ DOMAIN db' = DOMAIN db
           /\ db'[last'.bssid].first_seen = db[last'.bssid].first_seen
           /\ db'[last'.bssid].last_seen = now ]_vars

\* the row a successful write of the step leaves
RowWritten(step, t) ==
    [ssid |-> step.name, custom_name |-> step.reply[1], first_seen |-> t,
     last_seen |-> t]

\* C10: a label once written is what a later load of the table gives: a write
\* stores the name and the label it was given, a row is never changed or dropped
\* (its last_seen never decreases), and right after load_known_networks the cache
\* maps every address of the table to the row's name and label.
C10_RoundTrip ==
    /\ [](WM /\ last.op = "load" =>
            /\ DOMAIN monitor_known = DOMAIN db
            /\ \A b \in DOMAIN db :
                  monitor_known[b] = [ssid |-> db[b].ssid,
                                      custom_name |-> db[b].custom_name])
    /\ [][ WM =>
            /\ \A b \in DOMAIN db :
                  /\ b \in DOMAIN db'
                  /\ db'[b].ssid = db[b].ssid
                  /\ db'[b].custom_name = db[b].custom_name
                  /\ db'[b].last_seen >= db[b].last_seen
            /\ (pc = "visit" /\ last'.write = "ok") =>
                  /\ last'.bssid \in DOMAIN db'
                  /\ db'[last'.bssid] = RowWritten(last', now) ]_vars

\* the script was started again over a table that holds a label
C10_Witness ==
    /\ WM /\ last.op = "load"
    /\ \E b \in DOMAIN db : db[b].custom_name = "Mum" /\ db[b].last_seen < now

\* WifiMonitor.monitor: the step is one whole iteration of the for loop
VisitOps == {"skip", "prompt", "known"}

VisitStep == WM /\ pc = "visit" /\ last'.op \in VisitOps

StoppedBySignal ==
    /\ pc \notin {"stopped", "start", "exited"}
    /\ pc' \in {"stopped", "start"}
    /\ stop_cause' \in {"KeyboardInterrupt", "exit"}

\* C12: a stop signal ends the loop only between cycles (from the sleep), with
\* every event of the cycle announced and known-state fully updated; a cycle that
\* is scanning, diffing or announcing is never cut short.
C12_StopOnlyBetweenCycles ==
    [][ StoppedBySignal =>
            /\ pc = "sleep"
            /\ PD => /\ announced' =
                          analyze_network_changes(previous_known, current_networks).said
                     /\ known_networks' =
                          analyze_network_changes(previous_known, current_networks).known
      ]_vars

\* C13: when the wireless interface cannot be acquired at startup the process
\* exits (sys.exit(1)) before the loop is entered: in that run there is no scan,
\* no announcement and no write to the table, and nothing happens afterwards.
C13_InterfaceFailureIsFatal ==
    /\ [](stop_cause = "wifi interface" =>
              /\ pc = "exited"
              /\ last = NoStep /\ networks = <<>> /\ monitor_known = EmptyMap)
    /\ [][ (pc' = "exited" /\ stop_cause' = "wifi interface") => db' = db ]_vars
    /\ [][ pc # "exited" ]_vars

\* the script was started, used, left, and then started without an interface
C13_Witness ==
    /\ WM /\ pc = "exited" /\ stop_cause = "wifi interface"
    /\ db # EmptyMap

\* C14: one cycle at a time: a scan is issued only at the head of the loop, never
\* while the results of the scan before are still being gone through (announced,
\* prompted for); in phone-detector a scan is parsed only when the analysis of the
\* one before is over.
C14_OneCycleAtATime ==
    [][ /\ (WM /\ last'.op = "scan") => pc = "scan"
        /\ (PD /\ pc' = "analyze") => pc = "scan" ]_vars

\* a cycle with one network gone through (a label asked for) and one still to go
C14_Witness ==
    /\ WM /\ pc = "visit" /\ visit = 2
    /\ last.op = "prompt"

\* the networks of the scan that are new or significantly stronger, in scan order
NewOrCloser ==
    SelectSeq(current_networks,
              LAMBDA e : \/ e.ssid \notin Keys(previous_known)
                         \/ e.signal > SignalOf(previous_known, e.ssid)
                                       + SignalJumpThreshold)

\* the networks known before the cycle that the scan does not have, in the order
\* of the known-state's keys
GoneFromScan ==
    SelectSeq(previous_known, LAMBDA e : e.ssid \notin Keys(current_networks))

\* C15: the announcements of a cycle are the Appeared and Strengthened events in
\* scan order, followed by the Disappeared events in the order of the previous
\* known-state's keys; no Disappeared comes before an Appeared or Strengthened.
C15_EventOrder ==
    CycleDone =>
        /\ Len(announced) = Len(NewOrCloser) + Len(GoneFromScan)
        /\ \A i \in 1..Len(NewOrCloser) :
              /\ announced[i].ssid = NewOrCloser[i].ssid
              /\ announced[i].text \in AppearedTexts \cup {CloserText}
        /\ \A i \in 1..Len(GoneFromScan) :
              /\ announced[Len(NewOrCloser) + i].ssid = GoneFromScan[i].ssid
              /\ announced[Len(NewOrCloser) + i].text = GoneText

\* a cycle with an event for a network of the scan and one for a network gone
C15_Witness ==
    /\ CycleDone
    /\ Len(NewOrCloser) >= 1 /\ Len(GoneFromScan) >= 1
    /\ announced[Len(announced)].text = GoneText

\* C16: after a cycle the stored signal of every network of the scan is the
\* signal of the scan, whether it rose, fell or stayed and whether or not an
\* event was announced for it.
C16_SignalAlwaysStored ==
    CycleDone =>
        \A ssid \in Keys(current_networks) :
            /\ ssid \in Keys(known_networks)
            /\ SignalOf(known_networks, ssid) = SignalOf(current_networks, ssid)

\* a known network whose signal fell: nothing announced for it, the lower signal
\* stored
C16_Witness ==
    /\ CycleDone
    /\ \E ssid \in Keys(current_networks) \cap Keys(previous_known) :
          /\ SignalOf(current_networks, ssid) < SignalOf(previous_known, ssid)
          /\ SignalOf(known_networks, ssid) = SignalOf(current_networks, ssid)
          /\ Said(ssid, {CloserText}) = {}

\* C17: a network that is new in the scan is announced with the "very close by"
\* text exactly when its signal is above 60, with the plain "new device" text at
\* 60 or below; either message quotes the signal of the scan.
C17_VeryCloseAbove60 ==
    CycleDone =>
        /\ \A ssid \in Keys(current_networks) \ Keys(previous_known) :
              Cardinality(Said(ssid, AppearedTexts)) = 1
        /\ \A i \in DOMAIN announced :
              announced[i].text \in AppearedTexts =>
                  LET signal == SignalOf(current_networks, announced[i].ssid)
                  IN  /\ announced[i].args = << signal >>
                      /\ announced[i].text = NewCloseText <=> signal > CloseThreshold
                      /\ announced[i].text = NewText <=> signal <= CloseThreshold

\* one cycle with a new network at exactly 60 (plain text) and one at 61 (very
\* close by)
C17_Witness ==
    /\ CycleDone
    /\ \E i, j \in DOMAIN announced :
          /\ announced[i].text = NewText /\ announced[i].args = << CloseThreshold >>
          /\ announced[j].text = NewCloseText
          /\ announced[j].args = << CloseThreshold + 1 >>

\* C18: every signal held in known-state is within 0..100: a signal that netsh
\* reports below 0 or above 100 is clamped before it is compared and stored.
C18_SignalsClamped ==
    PD => \A i \in DOMAIN known_networks : known_networks[i].signal \in 0..100

\* C19: a network whose prompt was declined, answered with nothing or failed is
\* not added to known_networks (nor to the table); known_networks only grows by
\* a label that was written; so a named network that is not in known_networks is
\* announced as "New signal detected" and prompted for each time it is gone
\* through, until a label is written.
C19_UnlabelledPromptedAgain ==
    /\ [][ (VisitStep /\ last'.op = "prompt" /\ last'.write # "ok") =>
               /\ monitor_known' = monitor_known
               /\ db' = db
               /\ last'.bssid \notin DOMAIN monitor_known' ]_vars
    /\ [][ (WM /\ pc \in {"scan", "visit", "sleep"} /\ pc' \in {"scan", "visit", "sleep"}
               /\ monitor_known' # monitor_known) =>
               /\ last'.op = "prompt" /\ last'.write = "ok"
               /\ Truthy(last'.reply) ]_vars
    /\ [][ (VisitStep /\ networks[visit].name # EmptyName
               /\ networks[visit].bssid \notin DOMAIN monitor_known) =>
               /\ last'.op = "prompt"
               /\ last'.said[1] = Say(NewSignalText, <<>>) ]_vars

\* the same access point twice in one scan: no label the first time, so it is
\* prompted for again the second time
C19_Witness ==
    /\ WM /\ pc = "sleep" /\ Len(networks) = 2
    /\ networks[1].bssid = networks[2].bssid
    /\ last.op = "prompt" /\ last.bssid = networks[2].bssid
    /\ last.write # "ok"

\* C20: while the monitor runs, known_networks has exactly the identifiers that
\* have a row in the table, each with the row's ssid and custom_name, whatever
\* loads and successful or failed writes came before; so the INSERT is never
\* tried for an identifier that has a row (no IntegrityError).
C20_CacheMirrorsTable ==
    (WM /\ pc \in {"scan", "visit", "sleep"}) =>
        /\ DOMAIN monitor_known = DOMAIN db
        /\ \A b \in DOMAIN db :
              /\ monitor_known[b].ssid = db[b].ssid
              /\ monitor_known[b].custom_name = db[b].custom_name
        /\ last.write # "IntegrityError"

\* a table with a row of an earlier cycle, and then a write that failed
C20_Witness ==
    /\ WM /\ pc \in {"visit", "sleep"}
    /\ db # EmptyMap
    /\ \E b \in DOMAIN db : db[b].first_seen < now
    /\ last.op = "prompt" /\ last.write = "OperationalError"

====
